---- MODULE Spec2Model ----
(***************************************************************************)
(* Model of .github/scripts/sync_terms.py: the retrying transport          *)
(* (make_request), the merge of the local and the remote glossary          *)
(* (merge_terms) and the orchestration of one synchronisation run          *)
(* (sync_terms).                                                           *)
(*                                                                         *)
(* A Python dict (a term, a history entry) is a function from field names  *)
(* to values: a field is present iff its name is in the DOMAIN.  A Python  *)
(* dict used as a keyed mapping (local_dict, merged_dict) is a sequence of *)
(* [key, val] items in insertion order.                                    *)
(***************************************************************************)
EXTENDS Integers, Sequences, FiniteSets, TLC

\* ---------------------------------------------------------------- constants
MAX_RETRIES == 3
RETRY_DELAY == 5

\* ------------------------------------------------------------------- bounds
MaxId == 2        \* term ids are 1..MaxId
MaxTime == 2      \* remote history events carry created_at in 1..MaxTime
MaxSyncs == 2     \* runs of the script
MaxTotal == 120   \* the remote collection holds 0..MaxTotal terms
MaxPush == 220    \* update_remote_terms is given 0..MaxPush terms

Ids == 1..MaxId
NoneId == 0       \* Python None as an id (falsy, like 0)
NoneStr == "None" \* Python None where a string is expected
NoneTime == 0     \* Python None as a timestamp (falsy)
NoHeader == 0 - 1 \* the Retry-After header is absent
RetryAfterVals == {NoHeader, 1, 3}
Contents == {[translation |-> "A", context |-> "x"],
             [translation |-> "B", context |-> "y"]}

VARIABLES
  \* --- make_request
  rq_pc,      \* "idle", "loop", "returned", "raised", "none"
  attempt,    \* the loop variable of `for attempt in range(MAX_RETRIES)`
  resps,      \* the responses the server gave, in order
  waits,      \* the arguments of time.sleep, in order
  \* --- process configuration
  API_KEY,    \* TRUE iff PARATRANZ_API_KEY is set
  PROJECT_ID, \* TRUE iff PARATRANZ_PROJECT_ID is set
  \* --- the remote service
  remote,     \* the remote term collection, a sequence of terms
  rhist,      \* rhist[i]: the raw history list of term i, oldest first
  clock,      \* the timestamp of the latest remote history event
  \* --- the local store
  file,       \* [exists |-> BOOLEAN, terms |-> sequence of terms]
  \* --- sync_terms
  pc,         \* "Idle","Loading","Fetching","Merging","Persisting","Publishing","Done","Failed"
  local_terms, remote_terms, merged_terms,
  fetched,    \* the history get_term_history returned per id in the last merge
  log,        \* the stages started in this run, each with its outcome
  net,        \* TRUE iff this run issued an HTTP request
  result,     \* the return value of sync_terms: "none", "True", "False"
  syncs,      \* number of runs started
  \* --- get_remote_terms
  total,      \* the number of terms the remote collection holds
  g_pc,       \* "loop", "returned", "raised", "raised_format"
  page,       \* the page to request next
  all_terms,  \* the terms collected so far
  reqs,       \* the pages requested, in order
  \* --- update_remote_terms
  u_terms,    \* the argument: the terms to push
  u_pc,       \* "loop", "returned", "raised"
  batch,      \* the loop variable `page` of the batch loop
  sent        \* the bodies of the POST requests issued, in order

rqvars == <<rq_pc, attempt, resps, waits>>
cfgvars == <<API_KEY, PROJECT_ID>>
envvars == <<remote, rhist, clock>>
syncvars == <<file, pc, local_terms, remote_terms, merged_terms, fetched, log, net,
              result, syncs>>
pgvars == <<total, g_pc, page, all_terms, reqs>>
pushvars == <<u_terms, u_pc, batch, sent>>
vars == <<rqvars, cfgvars, envvars, syncvars, pgvars, pushvars>>

\* ------------------------------------------------------------- make_request
Responses ==
  {[status |-> 200, retry_after |-> NoHeader],
   [status |-> 500, retry_after |-> NoHeader]}
  \cup {[status |-> 429, retry_after |-> r] : r \in RetryAfterVals}

\* int(e.response.headers.get('Retry-After', RETRY_DELAY))
RetryAfter(r) == IF r.retry_after = NoHeader THEN RETRY_DELAY ELSE r.retry_after

\* `attempt < MAX_RETRIES - 1`: another attempt follows a failed one
MayRetryMut(a) == a < MAX_RETRIES
MayRetry(a) == a < MAX_RETRIES - 1

\* the for loop moves on to the next attempt, or is exhausted and the
\* function ends without a return statement (None)
NextAttempt(a) == IF a + 1 < MAX_RETRIES THEN "loop" ELSE "none"

RqInit ==
  /\ rq_pc = "idle"
  /\ attempt = 0
  /\ resps = <<>>
  /\ waits = <<>>

\* the call, up to the first iteration of the loop
RqCall ==
  /\ rq_pc = "idle"
  /\ rq_pc' = IF API_KEY THEN "loop" ELSE "raised"
  /\ UNCHANGED <<attempt, resps, waits>>
  /\ UNCHANGED <<pgvars, pushvars, cfgvars, envvars, syncvars>>

\* requests.request answers 2xx: raise_for_status passes, return response
RqOk ==
  /\ rq_pc = "loop"
  /\ \E r \in Responses :
       /\ r.status = 200
       /\ resps' = Append(resps, r)
  /\ rq_pc' = "returned"
  /\ UNCHANGED <<attempt, waits>>
  /\ UNCHANGED <<pgvars, pushvars, cfgvars, envvars, syncvars>>

\* HTTPError with status 429: sleep, continue
Rq429 ==
  /\ rq_pc = "loop"
  /\ \E r \in Responses :
       /\ r.status = 429
       /\ resps' = Append(resps, r)
       /\ waits' = Append(waits, RetryAfter(r))
  /\ rq_pc' = NextAttempt(attempt)
  /\ attempt' = attempt + 1
  /\ UNCHANGED <<pgvars, pushvars, cfgvars, envvars, syncvars>>

\* any other RequestException: sleep and retry, or log and re-raise
RqFail ==
  /\ rq_pc = "loop"
  /\ \E r \in Responses :
       /\ r.status = 500
       /\ resps' = Append(resps, r)
  /\ IF MayRetry(attempt)
       THEN /\ waits' = Append(waits, RETRY_DELAY)
            /\ attempt' = attempt + 1
            /\ rq_pc' = NextAttempt(attempt)
       ELSE /\ rq_pc' = "raised"
            /\ UNCHANGED <<attempt, waits>>
  /\ UNCHANGED <<pgvars, pushvars, cfgvars, envvars, syncvars>>

RqNext == RqCall \/ RqOk \/ Rq429 \/ RqFail

\* ------------------------------------------------------------ dicts, terms
Has(t, f) == f \in DOMAIN t

\* term.get('id'), None as NoneId
GetId(t) == IF Has(t, "id") THEN t.id ELSE NoneId

LocalKeyIdOnly(t) == IF Has(t, "id") THEN t.id ELSE NoneId
\* term.get('id', term.get('term_id')): the key of a local term
LocalKey(t) ==
  IF Has(t, "id") THEN t.id
  ELSE IF Has(t, "term_id") THEN t.term_id ELSE NoneId

\* term.get('history'), a missing list as the empty one (both are falsy)
GetHistory(t) == IF Has(t, "history") THEN t.history ELSE <<>>

\* d without the field f (del d[f])
Del(t, f) == [g \in DOMAIN t \ {f} |-> t[g]]

\* d[f] = v
Set(t, f, v) == [g \in DOMAIN t \cup {f} |-> IF g = f THEN v ELSE t[g]]

Range(s) == {s[k] : k \in 1..Len(s)}

\* d[key] = val on a dict: a present key keeps its position
DictPut(d, key, val) ==
  IF \E k \in 1..Len(d) : d[k].key = key
    THEN [k \in 1..Len(d) |-> IF d[k].key = key THEN [key |-> key, val |-> val] ELSE d[k]]
    ELSE Append(d, [key |-> key, val |-> val])

DictKeys(d) == {d[k].key : k \in 1..Len(d)}
\* d.get(key), for a key of d
DictGet(d, key) == d[CHOOSE k \in 1..Len(d) : d[k].key = key].val

\* {term.get('id', term.get('term_id')): term for term in local_terms}
RECURSIVE LocalDictFrom(_, _)
LocalDictFrom(d, terms) ==
  IF terms = <<>> THEN d
  ELSE LocalDictFrom(DictPut(d, LocalKey(Head(terms)), Head(terms)), Tail(terms))
LocalDict(terms) == LocalDictFrom(<<>>, terms)

\* {term['id']: term for term in remote_terms}; defined when every term has an id
RECURSIVE RemoteDictFrom(_, _)
RemoteDictFrom(d, terms) ==
  IF terms = <<>> THEN d
  ELSE RemoteDictFrom(DictPut(d, Head(terms).id, Head(terms)), Tail(terms))
RemoteDict(terms) == RemoteDictFrom(<<>>, terms)

\* {**local_dict, **remote_dict}
RECURSIVE DictUpdate(_, _)
DictUpdate(d, e) ==
  IF e = <<>> THEN d
  ELSE DictUpdate(DictPut(d, Head(e).key, Head(e).val), Tail(e))
MergedDictMut(local_dict, remote_dict) == DictUpdate(remote_dict, local_dict)
MergedDictRemoteOnly(local_dict, remote_dict) == remote_dict
MergedDict(local_dict, remote_dict) == DictUpdate(local_dict, remote_dict)
\* ---------------------------------------------------------- get_term_history
\* history[i] with old_translation, old_context and search_keywords added
AnnotateEntry(history, i) ==
  LET h == history[i]
      old_translation == IF i > 1 THEN history[i - 1].translation ELSE NoneStr
      old_context == IF i > 1 THEN history[i - 1].context ELSE NoneStr
  IN  [created_at |-> h.created_at, user |-> h.user, action |-> h.action,
       translation |-> h.translation, context |-> h.context,
       old_translation |-> old_translation, old_context |-> old_context,
       search_keywords |-> <<h.user.username, h.action, h.translation, h.context,
                             old_translation, old_context>>]

\* get_term_history(term_id) with search_query None: the annotated raw list,
\* or [] when the request or the decoding fails
GetTermHistory(raw, ok) ==
  IF ok THEN [i \in 1..Len(raw) |-> AnnotateEntry(raw, i)] ELSE <<>>

\* ----------------------------------------------------------------- merge_terms
\* local_term['last_modified'] if local_term and local_term.get('last_modified') else None
LastSyncTime(local_dict, term_id) ==
  IF term_id \in DictKeys(local_dict) /\ Has(DictGet(local_dict, term_id), "last_modified")
    THEN DictGet(local_dict, term_id).last_modified
    ELSE NoneTime

\* [h for h in history if h['created_at'] > last_sync_time], when last_sync_time is set
Since(history, last_sync_time) ==
  IF last_sync_time # NoneTime
    THEN SelectSeq(history, LAMBDA h : h.created_at > last_sync_time)
    ELSE history

NoneDiff == [none |-> TRUE]

\* the stored form of the i-th entry of a filtered history
StoredEntry(history, i) ==
  LET h == history[i]
  IN  [version |-> i,
       created_at |-> h.created_at,
       user |-> h.user.username,
       action |-> h.action,
       changes |-> [translation |-> h.translation, context |-> h.context],
       diff |-> IF h.action \in {"update", "create"}
                  THEN [translation |-> [old |-> h.old_translation, new |-> h.translation],
                        context |-> [old |-> h.old_context, new |-> h.context]]
                  ELSE NoneDiff]

\* [term.get('id') for term in merged_dict.values() if term.get('id')]
TermIds(merged_dict) ==
  {GetId(merged_dict[k].val) : k \in 1..Len(merged_dict)} \ {NoneId}

\* history_cache.get(term_id, []) after the preloading loop; hist[i] is what
\* get_term_history(i) returns
HistoryCache(local_dict, merged_dict, hist, term_id) ==
  IF term_id \in TermIds(merged_dict)
    THEN LET history == Since(hist[term_id], LastSyncTime(local_dict, term_id))
         IN  [i \in 1..Len(history) |-> StoredEntry(history, i)]
    ELSE <<>>

NormalizeIdKeepsLegacy(term) ==
  IF ~Has(term, "id") /\ Has(term, "term_id") THEN Set(term, "id", term.term_id) ELSE term
\* if 'id' not in term: term['id'] = term.get('term_id'); del term['term_id']
NormalizeId(term) ==
  IF ~Has(term, "id")
    THEN IF Has(term, "term_id")
           THEN Del(Set(term, "id", term.term_id), "term_id")
           ELSE Set(term, "id", NoneId)
    ELSE term

\* history + term['history'] if term.get('history') else history
JoinHistory(history, term) ==
  IF GetHistory(term) # <<>> THEN history \o term.history ELSE history

\* history[0]['created_at']
NewLastModified(history) == history[1].created_at

\* the block under `if history:` of the second loop
AddHistory(term, history) ==
  LET t1 == Set(term, "history", JoinHistory(history, term))
      t2 == Set(t1, "last_modified", NewLastModified(history))
  IN  Set(t2, "current_version", Len(t2.history))

\* the body of `for term in merged_dict.values()`
ProcessTerm(term, cache) ==
  LET t == NormalizeId(term)
  IN  IF GetId(t) # NoneId /\ cache[GetId(t)] # <<>>
        THEN AddHistory(t, cache[GetId(t)])
        ELSE t

\* the ids merge_terms calls get_term_history for
Requested(local, remot) ==
  IF \E k \in 1..Len(remot) : ~Has(remot[k], "id")
    THEN {}
    ELSE TermIds(MergedDict(LocalDict(local), RemoteDict(remot)))

\* merge_terms(local_terms, remote_terms): [ok |-> FALSE] when it raises
\* (a remote record without 'id' is a KeyError), else the merged list
MergeTerms(local, remot, hist) ==
  IF \E k \in 1..Len(remot) : ~Has(remot[k], "id")
    THEN [ok |-> FALSE, terms |-> <<>>]
    ELSE LET local_dict == LocalDict(local)
             remote_dict == RemoteDict(remot)
             merged_dict == MergedDict(local_dict, remote_dict)
             cache == [i \in Ids \cup {NoneId} |->
                         IF i = NoneId THEN <<>>
                         ELSE HistoryCache(local_dict, merged_dict, hist, i)]
         IN  [ok |-> TRUE,
              terms |-> [k \in 1..Len(merged_dict) |->
                           ProcessTerm(merged_dict[k].val, cache)]]

\* ----------------------------------------------------------- get_remote_terms
\* page_size of get_remote_terms
fetch_page_size == 50

\* the results of page p of a collection of n terms, the terms numbered 1..n
ServerPage(n, p) ==
  LET first == (p - 1) * fetch_page_size
      left == IF n > first THEN n - first ELSE 0
      size == IF left < fetch_page_size THEN left ELSE fetch_page_size
  IN  [k \in 1..size |-> first + k]

\* len(data['results']) < page_size: the last page
LastPageOnEmpty(results) == Len(results) = 0
LastPage(results) == Len(results) < fetch_page_size

PgInit ==
  /\ total = 0
  /\ g_pc = "loop"
  /\ page = 1
  /\ all_terms = <<>>
  /\ reqs = <<>>

\* one iteration of `while True` with a well-formed page
PageOk ==
  /\ g_pc = "loop"
  /\ reqs' = Append(reqs, page)
  /\ LET results == ServerPage(total, page)
     IN  /\ all_terms' = all_terms \o results
         /\ IF LastPage(results)
              THEN g_pc' = "returned" /\ page' = page
              ELSE g_pc' = "loop" /\ page' = page + 1
  /\ UNCHANGED <<total, rqvars, pushvars, cfgvars, envvars, syncvars>>

\* make_request raises, or gives no response and response.json() raises
PageRequestFails ==
  /\ g_pc = "loop"
  /\ reqs' = Append(reqs, page)
  /\ g_pc' = "raised"
  /\ UNCHANGED <<total, page, all_terms, rqvars, pushvars, cfgvars, envvars, syncvars>>

\* the payload is no dict with 'results': ValueError
PageMalformed ==
  /\ g_pc = "loop"
  /\ reqs' = Append(reqs, page)
  /\ g_pc' = "raised_format"
  /\ UNCHANGED <<total, page, all_terms, rqvars, pushvars, cfgvars, envvars, syncvars>>

\* -------------------------------------------------------- update_remote_terms
\* page_size of update_remote_terms
push_page_size == 100

\* (len(terms) + page_size - 1) // page_size
TotalPages(ts) == (Len(ts) + push_page_size - 1) \div push_page_size

\* terms[start:end] of batch b, b counted from 0
PageTerms(ts, b) ==
  LET start == b * push_page_size
      end == IF start + push_page_size < Len(ts) THEN start + push_page_size ELSE Len(ts)
  IN  SubSeq(ts, start + 1, end)

\* where the loop stands after batch b of n: an exception leaves it
AfterBatchContinues(ok, b, n) == IF b + 1 < n THEN "loop" ELSE "returned"
AfterBatch(ok, b, n) ==
  IF ~ok THEN "raised" ELSE IF b + 1 < n THEN "loop" ELSE "returned"

PushInit ==
  /\ u_terms = <<>>
  /\ u_pc = "call"
  /\ batch = 0
  /\ sent = <<>>

\* the call, up to the first iteration of the loop
PushCall ==
  /\ u_pc = "call"
  /\ u_pc' = IF TotalPages(u_terms) > 0 THEN "loop" ELSE "returned"
  /\ UNCHANGED <<u_terms, batch, sent, rqvars, pgvars, cfgvars, envvars, syncvars>>

\* one batch: the POST and the check of its answer
BatchDone(answer) ==
  /\ u_pc = "loop"
  /\ sent' = Append(sent, [body |-> PageTerms(u_terms, batch), answer |-> answer])
  /\ u_pc' = AfterBatch(answer = "message", batch, TotalPages(u_terms))
  /\ batch' = IF u_pc' = "loop" THEN batch + 1 ELSE batch
  /\ UNCHANGED <<u_terms, rqvars, pgvars, cfgvars, envvars, syncvars>>

\* the answer is a dict with 'message'
BatchOk == BatchDone("message")

\* make_request raises, or gives no response and response.json() raises
BatchRequestFails == BatchDone("error")

\* the answer is no dict with 'message': ValueError
BatchBadResponse == BatchDone("malformed")

\* ------------------------------------------------------- the remote service
\* the content of a term as first entered
OldContent == [translation |-> "A", context |-> "x"]

RemoteIds == {remote[k].id : k \in 1..Len(remote)}

Event(t, action, c) ==
  [created_at |-> t, user |-> [username |-> "u"], action |-> action,
   translation |-> c.translation, context |-> c.context]

RemoteTerm(i, c) == [id |-> i, translation |-> c.translation, context |-> c.context]

EnvInit ==
  /\ remote = <<>>
  /\ rhist = [i \in Ids |-> <<>>]
  /\ clock = 0

\* a translator creates term i
RemoteCreate ==
  /\ pc = "Idle"
  /\ clock < MaxTime
  /\ \E i \in Ids \ RemoteIds :
       /\ remote' = Append(remote, RemoteTerm(i, OldContent))
       /\ rhist' = [rhist EXCEPT ![i] = Append(@, Event(clock + 1, "create", OldContent))]
  /\ clock' = clock + 1
  /\ UNCHANGED <<rqvars, pgvars, pushvars, cfgvars, syncvars>>

\* a translator edits term i
RemoteUpdate ==
  /\ pc = "Idle"
  /\ clock < MaxTime
  /\ \E k \in 1..Len(remote), c \in Contents :
       /\ remote[k] # RemoteTerm(remote[k].id, c)
       /\ remote' = [remote EXCEPT ![k] = RemoteTerm(remote[k].id, c)]
       /\ rhist' = [rhist EXCEPT ![remote[k].id] = Append(@, Event(clock + 1, "update", c))]
  /\ clock' = clock + 1
  /\ UNCHANGED <<rqvars, pgvars, pushvars, cfgvars, syncvars>>

\* term i leaves the remote collection; its history stays on record
RemoteDelete ==
  /\ pc = "Idle"
  /\ \E k \in 1..Len(remote) :
       remote' = SelectSeq(remote, LAMBDA t : t.id # remote[k].id)
  /\ UNCHANGED <<rhist, clock, rqvars, pgvars, pushvars, cfgvars, syncvars>>

\* ------------------------------------------------------------ the local store
\* a record of an earlier format of the local file: keyed by term_id only
LegacyTerm(i) ==
  [term_id |-> i, translation |-> OldContent.translation, context |-> OldContent.context]

\* a record that carries both identifier fields
BothTerm(i) ==
  [id |-> i, term_id |-> i, translation |-> OldContent.translation,
   context |-> OldContent.context]

\* a record keyed by id
IdTerm(i) == [id |-> i, translation |-> "B", context |-> "y"]

\* the ids found in files of an earlier format
LegacyIds == {1}

\* the local file before the first run: absent, or left by an earlier format
InitFiles ==
  {[exists |-> FALSE, terms |-> <<>>]}
  \cup {[exists |-> TRUE, terms |-> <<LegacyTerm(i)>>] : i \in LegacyIds}
  \cup {[exists |-> TRUE, terms |-> <<BothTerm(i)>>] : i \in LegacyIds}
  \cup {[exists |-> TRUE, terms |-> <<LegacyTerm(i), IdTerm(i)>>] : i \in LegacyIds}
  \cup {[exists |-> TRUE, terms |-> <<IdTerm(i), LegacyTerm(i)>>] : i \in LegacyIds}

\* --------------------------------------------------------------- sync_terms
Order == <<"load", "fetch", "merge", "save", "push">>

\* the stage that follows a stage: any exception ends the run in `except`
AfterStageMut(stage, ok) ==
  IF stage = "push" /\ ~ok THEN "Failed"
  ELSE CASE stage = "load" -> "Fetching"
         [] stage = "fetch" -> "Merging"
         [] stage = "merge" -> "Persisting"
         [] stage = "save" -> "Publishing"
         [] OTHER -> "Done"
AfterStage(stage, ok) ==
  IF ~ok THEN "Failed"
  ELSE CASE stage = "load" -> "Fetching"
         [] stage = "fetch" -> "Merging"
         [] stage = "merge" -> "Persisting"
         [] stage = "save" -> "Publishing"
         [] OTHER -> "Done"

FinishAlwaysTrue(p) == IF p \in {"Done", "Failed"} THEN "True" ELSE "none"
\* return True at the end of the try block, return False in the except clause
Finish(p) == IF p = "Done" THEN "True" ELSE IF p = "Failed" THEN "False" ELSE "none"

Step(stage, ok) ==
  /\ pc' = AfterStage(stage, ok)
  /\ log' = Append(log, [stage |-> stage, ok |-> ok])
  /\ result' = Finish(pc')

SyncInit ==
  /\ file \in InitFiles
  /\ pc = "Idle"
  /\ local_terms = <<>>
  /\ remote_terms = <<>>
  /\ merged_terms = <<>>
  /\ fetched = [i \in Ids |-> <<>>]
  /\ log = <<>>
  /\ net = FALSE
  /\ result = "none"
  /\ syncs = 0

ConfiguredKeyOnly(key, project) == key
\* `if not API_KEY: raise` and `if not PROJECT_ID: raise` both pass
Configured(key, project) == key /\ project

\* sync_terms up to load_local_terms: the check of the environment
SyncStart ==
  /\ pc = "Idle"
  /\ syncs < MaxSyncs
  /\ syncs' = syncs + 1
  /\ pc' = IF Configured(API_KEY, PROJECT_ID) THEN "Loading" ELSE "Failed"
  /\ result' = Finish(pc')
  /\ UNCHANGED <<file, local_terms, remote_terms, merged_terms, fetched, log, net>>
  /\ UNCHANGED <<rqvars, pgvars, pushvars, cfgvars, envvars>>

\* load_local_terms: [] without a file, else its content, or an error
Load ==
  /\ pc = "Loading"
  /\ \E ok \in BOOLEAN :
       /\ ~file.exists => ok
       /\ local_terms' = IF ok THEN file.terms ELSE <<>>
       /\ Step("load", ok)
  /\ UNCHANGED <<file, remote_terms, merged_terms, fetched, net, syncs>>
  /\ UNCHANGED <<rqvars, pgvars, pushvars, cfgvars, envvars>>

MalformedTerm == [translation |-> "A", context |-> "x"]

\* get_remote_terms: the remote collection, or an error; the service may
\* answer with a record that has no id
Fetch ==
  /\ pc = "Fetching"
  /\ \E ok \in BOOLEAN, malformed \in BOOLEAN :
       /\ remote_terms' = IF ok
                            THEN IF malformed THEN Append(remote, MalformedTerm) ELSE remote
                            ELSE <<>>
       /\ Step("fetch", ok)
  /\ net' = TRUE
  /\ UNCHANGED <<file, local_terms, merged_terms, fetched, syncs>>
  /\ UNCHANGED <<rqvars, pgvars, pushvars, cfgvars, envvars>>

\* merge_terms(local_terms, remote_terms); each history request may fail
Merge ==
  /\ pc = "Merging"
  /\ \E okf \in [Ids -> BOOLEAN] :
       LET hist == [i \in Ids |-> GetTermHistory(rhist[i], okf[i])]
           m == MergeTerms(local_terms, remote_terms, hist)
       IN  /\ \A i \in Ids \ Requested(local_terms, remote_terms) : okf[i]
           /\ fetched' = [i \in Ids |->
                            IF i \in Requested(local_terms, remote_terms)
                              THEN hist[i] ELSE <<>>]
           /\ merged_terms' = m.terms
           /\ Step("merge", m.ok)
  /\ UNCHANGED <<file, local_terms, remote_terms, net, syncs>>
  /\ UNCHANGED <<rqvars, pgvars, pushvars, cfgvars, envvars>>

\* save_local_terms(merged_terms)
Save ==
  /\ pc = "Persisting"
  /\ \E ok \in BOOLEAN :
       /\ file' = IF ok THEN [exists |-> TRUE, terms |-> merged_terms] ELSE file
       /\ Step("save", ok)
  /\ UNCHANGED <<local_terms, remote_terms, merged_terms, fetched, net, syncs>>
  /\ UNCHANGED <<rqvars, pgvars, pushvars, cfgvars, envvars>>

\* update_remote_terms(merged_terms)
Push ==
  /\ pc = "Publishing"
  /\ \E ok \in BOOLEAN : Step("push", ok)
  /\ UNCHANGED <<file, local_terms, remote_terms, merged_terms, fetched, net, syncs>>
  /\ UNCHANGED <<rqvars, pgvars, pushvars, cfgvars, envvars>>

\* the process ends; the next run starts from the file
Exit ==
  /\ pc \in {"Done", "Failed"}
  /\ pc' = "Idle"
  /\ local_terms' = <<>>
  /\ remote_terms' = <<>>
  /\ merged_terms' = <<>>
  /\ fetched' = [i \in Ids |-> <<>>]
  /\ log' = <<>>
  /\ net' = FALSE
  /\ result' = "none"
  /\ UNCHANGED <<file, syncs>>
  /\ UNCHANGED <<rqvars, pgvars, pushvars, cfgvars, envvars>>

\* ------------------------------------------------------------ specifications
CfgInit == API_KEY \in BOOLEAN /\ PROJECT_ID \in BOOLEAN

Init == RqInit /\ CfgInit /\ EnvInit /\ SyncInit /\ PgInit /\ PushInit

Next ==
  \/ RemoteCreate \/ RemoteUpdate \/ RemoteDelete
  \/ SyncStart \/ Load \/ Fetch \/ Merge \/ Save \/ Push \/ Exit

Spec == Init /\ [][Next]_vars

\* one call of make_request against every sequence of responses
InitRequest ==
  /\ RqInit /\ CfgInit /\ EnvInit /\ SyncInit /\ PgInit /\ PushInit
  /\ PROJECT_ID = TRUE
  /\ ~file.exists

NextRequest == RqNext

SpecRequest == InitRequest /\ [][NextRequest]_vars

\* the runs that start without a local file, with the configuration in place
InitEmpty == Init /\ ~file.exists /\ API_KEY /\ PROJECT_ID

SpecEmpty == InitEmpty /\ [][Next]_vars

\* one call of get_remote_terms against a remote collection of any size
InitFetch ==
  /\ RqInit /\ EnvInit /\ SyncInit /\ PushInit
  /\ API_KEY = TRUE /\ PROJECT_ID = TRUE
  /\ ~file.exists
  /\ total \in 0..MaxTotal
  /\ g_pc = "loop"
  /\ page = 1
  /\ all_terms = <<>>
  /\ reqs = <<>>

NextFetch == PageOk \/ PageRequestFails \/ PageMalformed

SpecFetch == InitFetch /\ [][NextFetch]_vars

\* one call of update_remote_terms with any number of terms
InitPush ==
  /\ RqInit /\ EnvInit /\ SyncInit /\ PgInit
  /\ API_KEY = TRUE /\ PROJECT_ID = TRUE
  /\ ~file.exists
  /\ \E n \in 0..MaxPush : u_terms = [k \in 1..n |-> k]
  /\ u_pc = "call"
  /\ batch = 0
  /\ sent = <<>>

NextPush == PushCall \/ BatchOk \/ BatchRequestFails \/ BatchBadResponse

SpecPush == InitPush /\ [][NextPush]_vars

\* runs of the script, or one call of make_request on its own; with the token
\* missing, both in any order
InSync == rq_pc = "idle" \/ ~API_KEY
Standalone == (pc = "Idle" /\ syncs = 0 /\ clock = 0) \/ ~API_KEY

NextConfig == (InSync /\ Next) \/ (Standalone /\ RqNext)

SpecConfig == Init /\ [][NextConfig]_vars

\* ============================================================== properties
\* the non-429 failures among the responses of the call
NFail == Cardinality({k \in 1..Len(resps) : resps[k].status = 500})
AllFailed == \A k \in 1..Len(resps) : resps[k].status = 500

\* merge_terms has returned in this run
MergedOK == Len(log) >= 3 /\ log[3].ok

\* C1: a 429 response is waited for and retried without consuming an attempt:
\* the call gives up only after MAX_RETRIES non-429 failures, however many 429
\* responses are interleaved; one 429 followed by a success gives exactly one
\* wait and a returned response.
C1_RateLimitKeepsBudget ==
  /\ (API_KEY /\ rq_pc \in {"raised", "none"}) => NFail = MAX_RETRIES
  /\ (Len(resps) = 2 /\ resps[1].status = 429 /\ resps[2].status = 200)
       => (rq_pc = "returned" /\ waits = <<RetryAfter(resps[1])>>)

\* C2: when every attempt fails with a non-429 error, there are at most
\* MAX_RETRIES attempts, RETRY_DELAY is waited between consecutive attempts,
\* and the failure of the last attempt raises: no response, no further retry.
C2_RetriesThenRaises ==
  (API_KEY /\ AllFailed) =>
    /\ Len(resps) <= MAX_RETRIES
    /\ rq_pc \in {"idle", "loop", "raised"}
    /\ (rq_pc = "raised") = (Len(resps) = MAX_RETRIES)
    /\ Len(waits) = (IF Len(resps) < MAX_RETRIES THEN Len(resps) ELSE MAX_RETRIES - 1)
    /\ \A k \in 1..Len(waits) : waits[k] = RETRY_DELAY

C2_Witness ==
  /\ API_KEY /\ AllFailed
  /\ rq_pc = "raised"
  /\ Len(resps) = MAX_RETRIES
  /\ waits = <<RETRY_DELAY, RETRY_DELAY>>

\* C3: the stages of a run start in the order load, fetch, merge, save, push,
\* and a stage starts only when every earlier stage succeeded; the file is
\* written only with the output of a merge that returned.
C3_StagesInOrder ==
  /\ [](/\ Len(log) <= Len(Order)
        /\ \A k \in 1..Len(log) :
             /\ log[k].stage = Order[k]
             /\ k < Len(log) => log[k].ok
        /\ pc = "Publishing" => (Len(log) = 4 /\ log[4].ok)
        /\ pc = "Persisting" => (Len(log) = 3 /\ log[3].ok))
  /\ [][file' # file => (MergedOK /\ pc = "Persisting" /\ file'.terms = merged_terms)]_vars

C3_Witness ==
  /\ pc = "Failed"
  /\ Len(log) = 4
  /\ ~log[4].ok
  /\ file.terms # merged_terms

\* C4: for an id held by the local and by the remote collection, the merged
\* term has the translation and the context of the remote record.
C4_RemotePrecedence ==
  MergedOK =>
    \A m \in Range(merged_terms), r \in Range(remote_terms), l \in Range(local_terms) :
      (LocalKey(l) = r.id /\ GetId(m) = r.id)
        => (m.translation = r.translation /\ m.context = r.context)

C4_Witness ==
  /\ MergedOK
  /\ \E m \in Range(merged_terms), r \in Range(remote_terms), l \in Range(local_terms) :
       /\ LocalKey(l) = r.id /\ GetId(m) = r.id
       /\ l.translation # r.translation /\ l.context # r.context
       /\ m.translation = r.translation

\* the created_at of the entries of a history
Stamps(h) == [k \in 1..Len(h) |-> h[k].created_at]

\* the entries of a fetched history that are after the stored last_modified
NewEntries(l, i) ==
  IF Has(l, "last_modified")
    THEN SelectSeq(fetched[i], LAMBDA h : h.created_at > l.last_modified)
    ELSE fetched[i]

\* C5: a term with n stored history entries for which the fetch yields k >= 1
\* entries after the stored last_modified has, once merged, the k new entries
\* followed by the n stored ones, and current_version = n + k; also when the
\* term is in the local and in the remote collection.
C5_HistoryAccumulates ==
  MergedOK =>
    \A m \in Range(merged_terms), l \in Range(local_terms) :
      (LocalKey(l) = GetId(m) /\ GetId(m) \in Ids /\ Len(NewEntries(l, GetId(m))) >= 1)
        => LET n == Len(GetHistory(l))
               new == NewEntries(l, GetId(m))
               k == Len(new)
           IN  /\ Len(GetHistory(m)) = n + k
               /\ SubSeq(Stamps(GetHistory(m)), 1, k) = Stamps(new)
               /\ SubSeq(GetHistory(m), k + 1, n + k) = GetHistory(l)
               /\ Has(m, "current_version") /\ m.current_version = n + k

\* no created_at occurs twice in a history
NoDuplicate(h) == \A a, b \in 1..Len(h) : h[a].created_at = h[b].created_at => a = b

\* C6: starting from an empty local store, no stored history ever holds the
\* same remote event (same created_at) twice, over any number of runs against
\* a remote history that only grows.
C6_NoDuplicateHistory ==
  \A t \in Range(file.terms) : NoDuplicate(GetHistory(t))

\* C7: after a merge every term of the output has current_version equal to the
\* length of its history, new history entries or not.
C7_VersionIsHistoryLength ==
  MergedOK =>
    \A m \in Range(merged_terms) :
      Has(m, "current_version") /\ m.current_version = Len(GetHistory(m))

\* what get_term_history returns for every id when no request fails
FullHistory == [i \in Ids |-> GetTermHistory(rhist[i], TRUE)]

\* every history request of the merge of this run succeeded
AllFetched == \A i \in Requested(local_terms, remote_terms) : fetched[i] = FullHistory[i]

\* C8: with the remote collection and the remote history unchanged, merging
\* the output of a merge again gives the same output.
C8_MergeIdempotent ==
  (MergedOK /\ AllFetched) =>
    MergeTerms(merged_terms, remote_terms, FullHistory).terms = merged_terms

StoreIds(terms) == {LocalKey(terms[k]) : k \in 1..Len(terms)}

\* C10: the ids of the merged output are the ids of the local collection and
\* the ids of the remote collection together, so the ids of the local store
\* never shrink from run to run.
C10_NoTermDropped ==
  /\ [](MergedOK =>
          {GetId(merged_terms[k]) : k \in 1..Len(merged_terms)}
            = StoreIds(local_terms) \cup {remote_terms[k].id : k \in 1..Len(remote_terms)})
  /\ [][StoreIds(file.terms) \subseteq StoreIds(file'.terms)]_vars

C10_Witness ==
  /\ pc = "Publishing"
  /\ syncs = 2
  /\ \E i \in StoreIds(file.terms) :
       /\ i \notin RemoteIds
       /\ rhist[i] # <<>>

\* C11: no two terms of the merged output have the same id, also when the
\* local collection holds an id-keyed and a term_id-keyed record of one id.
C11_UniqueIds ==
  MergedOK =>
    \A a, b \in 1..Len(merged_terms) :
      GetId(merged_terms[a]) = GetId(merged_terms[b]) => a = b

C11_Witness ==
  /\ MergedOK
  /\ \E i \in Ids :
       /\ local_terms \in {<<LegacyTerm(i), IdTerm(i)>>, <<IdTerm(i), LegacyTerm(i)>>}
       /\ \E r \in Range(remote_terms) : r.id # i
       /\ Cardinality({k \in 1..Len(merged_terms) : GetId(merged_terms[k]) = i}) = 1
       /\ Len(merged_terms) = 2

\* the concatenation of pages 1..n of a collection of t terms
RECURSIVE Pages(_, _)
Pages(t, n) == IF n = 0 THEN <<>> ELSE Pages(t, n - 1) \o ServerPage(t, n)

\* C12: get_remote_terms requests pages 1, 2, 3, ... and stops right after the
\* first page shorter than the page size; it returns the pages requested,
\* concatenated in order.
C12_PagingStopsAtShortPage ==
  /\ reqs = [k \in 1..Len(reqs) |-> k]
  /\ \A k \in 1..(Len(reqs) - 1) : Len(ServerPage(total, k)) = fetch_page_size
  /\ g_pc = "loop" =>
       /\ page = Len(reqs) + 1
       /\ \A k \in 1..Len(reqs) : Len(ServerPage(total, k)) = fetch_page_size
       /\ all_terms = Pages(total, Len(reqs))
  /\ g_pc = "returned" =>
       /\ Len(ServerPage(total, Len(reqs))) < fetch_page_size
       /\ all_terms = Pages(total, Len(reqs))
       /\ Len(all_terms) = total

C12_Witness ==
  /\ g_pc = "returned"
  /\ reqs = <<1, 2, 3>>
  /\ Len(all_terms) = 2 * fetch_page_size + 17

\* the batches before the last one sent were all confirmed
EarlierBatchesOk == \A k \in 1..(Len(sent) - 1) : sent[k].answer = "message"

\* C13: update_remote_terms sends the batches in order and stops at the first
\* batch that fails (transport error, or an answer without a message field):
\* no later batch is sent, and it reports success only if every batch succeeded.
C13_PushAbortsOnFailure ==
  /\ Len(sent) <= TotalPages(u_terms)
  /\ \A k \in 1..Len(sent) : sent[k].body = PageTerms(u_terms, k - 1)
  /\ EarlierBatchesOk
  /\ u_pc = "returned" =>
       /\ Len(sent) = TotalPages(u_terms)
       /\ \A k \in 1..Len(sent) : sent[k].answer = "message"
  /\ (u_pc = "raised") = (sent # <<>> /\ sent[Len(sent)].answer # "message")

C13_Witness ==
  /\ TotalPages(u_terms) = 3
  /\ Len(sent) = 2
  /\ sent[2].answer = "malformed"
  /\ u_pc = "raised"

\* the history request for id i was made in this run and failed
FetchFailed(i) ==
  /\ i \in Requested(local_terms, remote_terms)
  /\ fetched[i] = <<>>
  /\ rhist[i] # <<>>

\* the history stored locally for id i
StoredHistory(i) ==
  IF i \in DictKeys(LocalDict(local_terms))
    THEN GetHistory(DictGet(LocalDict(local_terms), i))
    ELSE <<>>

\* C14: a failed history request never fails the merge: the term is in the
\* merged output with its content and its stored history unchanged, and the
\* other terms come out as they do without the failure.
C14_HistoryFailureTolerated ==
  /\ (Len(log) >= 3 /\ \A r \in Range(remote_terms) : Has(r, "id")) => log[3].ok
  /\ MergedOK =>
       \A i \in Ids :
         FetchFailed(i) =>
           /\ \E m \in Range(merged_terms) :
                /\ GetId(m) = i
                /\ GetHistory(m) = StoredHistory(i)
                /\ \A r \in Range(remote_terms) :
                     r.id = i => (m.translation = r.translation /\ m.context = r.context)
           /\ \A m \in Range(MergeTerms(local_terms, remote_terms,
                                        [fetched EXCEPT ![i] = FullHistory[i]]).terms) :
                GetId(m) # i => m \in Range(merged_terms)

\* C15: sync_terms ends by returning one boolean: True exactly when load,
\* fetch, merge, save and push all succeeded, False when the configuration is
\* missing or a stage failed.
C15_SingleBooleanOutcome ==
  /\ result \in {"none", "True", "False"}
  /\ (result = "none") = (pc \notin {"Done", "Failed"})
  /\ (result = "True") =
       (/\ Len(log) = Len(Order)
        /\ \A k \in 1..Len(log) : log[k].stage = Order[k] /\ log[k].ok)
  /\ (result = "False") =
       (/\ syncs > 0 /\ pc # "Idle"
        /\ \/ ~(API_KEY /\ PROJECT_ID)
           \/ (log # <<>> /\ ~log[Len(log)].ok))

C15_Witness ==
  /\ result = "False"
  /\ Len(log) = Len(Order)
  /\ log[4].ok
  /\ ~log[5].ok
  /\ file.terms = merged_terms

\* C16: without the token or the project id, sync_terms returns failure and
\* no HTTP request is issued; without the token make_request raises before it
\* sends anything.
C16_NoNetworkWithoutConfig ==
  /\ ~(API_KEY /\ PROJECT_ID) =>
       /\ ~net
       /\ log = <<>>
       /\ pc \in {"Idle", "Failed"}
       /\ pc = "Failed" => result = "False"
  /\ ~API_KEY =>
       /\ resps = <<>>
       /\ rq_pc \in {"idle", "raised"}

C16_Witness ==
  /\ ~API_KEY
  /\ pc = "Failed" /\ result = "False" /\ ~net
  /\ rq_pc = "raised" /\ resps = <<>>

\* the entries the merge of this run found new for id i
NewFor(i) ==
  IF i \in DictKeys(LocalDict(local_terms))
    THEN NewEntries(DictGet(LocalDict(local_terms), i), i)
    ELSE fetched[i]

\* the largest created_at of a non-empty history
Newest(h) == CHOOSE t \in Range(Stamps(h)) : \A u \in Range(Stamps(h)) : u <= t

\* C17: when the merge finds new history entries for a term, last_modified
\* becomes the largest created_at among them, so no stored entry is later
\* than last_modified and the next filter selects none of them again.
C17_LastModifiedIsNewest ==
  MergedOK =>
    \A m \in Range(merged_terms) :
      (GetId(m) \in Ids /\ NewFor(GetId(m)) # <<>>) =>
        /\ Has(m, "last_modified")
        /\ m.last_modified = Newest(NewFor(GetId(m)))
        /\ \A k \in 1..Len(GetHistory(m)) : m.history[k].created_at <= m.last_modified

\* C18: no term of the merged output has both id and term_id: a term that
\* holds both on input keeps its id and loses term_id.
C18_LegacyFieldRemoved ==
  MergedOK =>
    /\ \A m \in Range(merged_terms) : ~(Has(m, "id") /\ Has(m, "term_id"))
    /\ \A l \in Range(local_terms) :
         (Has(l, "id") /\ Has(l, "term_id")) =>
           \E m \in Range(merged_terms) : GetId(m) = l.id

\* C19: the merge requests the history of every id of the merged mapping,
\* also of a local term keyed by term_id only, which so receives the history
\* the remote holds for it.
C19_HistoryForEveryId ==
  MergedOK =>
    /\ Requested(local_terms, remote_terms)
         = {GetId(merged_terms[k]) : k \in 1..Len(merged_terms)}
    /\ \A l \in Range(local_terms), m \in Range(merged_terms) :
         (/\ ~Has(l, "id") /\ Has(l, "term_id")
          /\ GetId(m) = l.term_id
          /\ rhist[l.term_id] # <<>>
          /\ ~FetchFailed(l.term_id))
           => GetHistory(m) # <<>>

\* C20: a call of make_request with a token ends by returning a successful
\* response or by raising; it never ends without a response.
C20_ResponseOrError ==
  API_KEY =>
    /\ rq_pc \in {"idle", "loop", "returned", "raised"}
    /\ rq_pc = "returned" => (resps # <<>> /\ resps[Len(resps)].status = 200)
    /\ rq_pc = "raised" => (resps # <<>> /\ resps[Len(resps)].status = 500)
====
